---- MODULE Spec2Model ----
(***************************************************************************)
(* Membership lifecycle of the spam restrictor bot: the SQLite store       *)
(* (src/src/database.py), the join handler track_chat_member and the       *)
(* periodic sweep check_expired_restrictions (src/src/bot.py).             *)
(*                                                                         *)
(* The bot runs on one asyncio event loop.  A coroutine runs without       *)
(* interruption between two awaits; every action below is one such         *)
(* segment: the awaited call completes (with its effect on the store or    *)
(* its gateway outcome) and the coroutine runs on to its next await.       *)
(* A Database method issues its statement and its commit back to back on   *)
(* the single connection, which every coroutine shares, so the statement   *)
(* is visible to all of them at once: one method call is one step.         *)
(* Display attributes (username, first_name, last_name) are carried        *)
(* through unchanged by the code and are left out of the rows.             *)
(***************************************************************************)
EXTENDS Integers, FiniteSets, Sequences, TLC

\* ---------------------------------------------------------------- bounds
\* restriction_period_days and check_interval_seconds, in clock ticks.
GracePeriod == 1
CheckInterval == 1
\* The clock runs up to the first possible expiry of a row.
MaxTime == GracePeriod

\* ---------------------------------------------------------------- inputs
Users == {"u1", "u2"}
Handlers == {"h1", "h2"}
\* Updates are dispatched one at a time (Application.builder().build()
\* leaves concurrent_updates off): one handler coroutine is in flight.
Sequential == {"h1"}
GROUP_ID == "group"
\* [ChatMember.MEMBER, ChatMember.ADMINISTRATOR, ChatMember.OWNER]
JoinedStatuses == {"member", "administrator", "creator"}
\* The chat-member updates of the model: joins of humans and of bots in
\* the group, a join in another chat, and a member leaving, being kicked
\* or being restricted.
Updates ==
    [user : Users, chat : {GROUP_ID}, status : {"member"}, is_bot : BOOLEAN]
    \cup [user : {"u1"}, chat : {"other"}, status : {"member"},
          is_bot : {FALSE}]
    \cup [user : {"u1"}, chat : {GROUP_ID},
          status : {"left", "kicked", "restricted"}, is_bot : {FALSE}]
None == -1
NoUser == "-"

\* ------------------------------------------------------------- database
RestrictedRow(user_id, ts) ==
    [user_id |-> user_id, joined_at |-> ts, restricted_at |-> ts]

BannedRow(user_id, ts, reason) ==
    [user_id |-> user_id, banned_at |-> ts, reason |-> reason]

\* add_restricted_user without the PRIMARY KEY: every call adds a row.
add_restricted_user_nokey(table, user_id, ts) ==
    [ok |-> TRUE, table |-> table \cup {RestrictedRow(user_id, ts)}]

\* add_restricted_user as an upsert: an existing row is overwritten.
add_restricted_user_upsert(table, user_id, ts) ==
    [ok |-> ~\E r \in table : r.user_id = user_id,
     table |-> {r \in table : r.user_id # user_id}
               \cup {RestrictedRow(user_id, ts)}]

\* add_restricted_user that restarts the grace period of an existing row:
\* restricted_at is set anew, joined_at is kept.
add_restricted_user_restamp(table, user_id, ts) ==
    IF \E r \in table : r.user_id = user_id
    THEN [ok |-> FALSE,
          table |-> {IF r.user_id = user_id
                     THEN [r EXCEPT !.restricted_at = ts] ELSE r :
                     r \in table}]
    ELSE [ok |-> TRUE, table |-> table \cup {RestrictedRow(user_id, ts)}]

\* INSERT INTO restricted_users: the PRIMARY KEY rejects a second row for
\* the id (IntegrityError -> False), otherwise the row is added (True).
add_restricted_user(table, user_id, ts) ==
    IF \E r \in table : r.user_id = user_id
    THEN [ok |-> FALSE, table |-> table]
    ELSE [ok |-> TRUE, table |-> table \cup {RestrictedRow(user_id, ts)}]

is_user_restricted(table, user_id) == \E r \in table : r.user_id = user_id

\* add_banned_user as a toggle: a second insert for the id deletes the row.
add_banned_user_toggle(table, user_id, ts, reason) ==
    IF \E r \in table : r.user_id = user_id
    THEN {r \in table : r.user_id # user_id}
    ELSE table \cup {BannedRow(user_id, ts, reason)}

\* INSERT OR REPLACE INTO banned_users: a row with the id is replaced.
add_banned_user(table, user_id, ts, reason) ==
    {r \in table : r.user_id # user_id} \cup {BannedRow(user_id, ts, reason)}

is_user_banned(table, user_id) == \E r \in table : r.user_id = user_id

\* DELETE FROM restricted_users WHERE user_id = ?
remove_restricted_user(table, user_id) ==
    [deleted |-> \E r \in table : r.user_id = user_id,
     table |-> {r \in table : r.user_id # user_id}]

\* The SELECT without its WHERE clause.
get_expired_restrictions_all(table, cutoff) ==
    {r \in table : TRUE}

\* SELECT ... FROM restricted_users WHERE restricted_at <= cutoff
get_expired_restrictions(table, cutoff) ==
    {r \in table : r.restricted_at <= cutoff}

\* ---------------------------------------------------------------- state
VARIABLES
    now,               \* datetime.utcnow(), in grace-period units
    restricted_users,  \* table restricted_users: a set of rows
    banned_users,      \* table banned_users: a set of rows
    config,            \* Config: notify_no_users, admin_user_id (set or not)
    handlers,          \* the track_chat_member coroutines
    sweep,             \* the check_expired_restrictions job
    last_check_time,   \* SpamRestrictorBot.last_check_time
    next_check_time,   \* SpamRestrictorBot.next_check_time
    stats,             \* a get_stats call of the Database
    abandoned          \* the calls a stop of the process left unfinished

vars == <<now, restricted_users, banned_users, config, handlers, sweep,
          last_check_time, next_check_time, stats, abandoned>>

store == <<restricted_users, banned_users>>

\* The flags of a ChatPermissions object: the ten the bot names and the
\* four it does not.
PermissionFlags ==
    {"can_send_messages", "can_send_audios", "can_send_documents",
     "can_send_photos", "can_send_videos", "can_send_video_notes",
     "can_send_voice_notes", "can_send_polls", "can_send_other_messages",
     "can_add_web_page_previews", "can_change_info", "can_invite_users",
     "can_pin_messages", "can_manage_topics"}

\* ChatPermissions(flag=False, ...): a flag passed as False is denied, a
\* flag not passed is None (unset).
ChatPermissions(denied) ==
    [f \in PermissionFlags |-> IF f \in denied THEN "denied" ELSE "unset"]

NoPermissions == ChatPermissions({})

\* A mask that denies text messages only.
restricted_permissions_textonly == ChatPermissions({"can_send_messages"})

\* self.restricted_permissions, built once in __init__.
restricted_permissions ==
    ChatPermissions({"can_send_messages", "can_send_audios",
                     "can_send_documents", "can_send_photos",
                     "can_send_videos", "can_send_video_notes",
                     "can_send_voice_notes", "can_send_polls",
                     "can_send_other_messages", "can_add_web_page_previews"})

InitHandler ==
    [pc |-> "idle", user |-> NoUser, chat |-> GROUP_ID, status |-> "member",
     is_bot |-> FALSE, banned |-> "none", ban |-> "none", restrict |-> "none",
     stamp |-> 0, inserted |-> "none", notice |-> "none", raised |-> FALSE,
     left_before |-> FALSE, sent |-> "none", permissions |-> NoPermissions]

\* The handler has returned (or an exception left it).
Returned(h, raised) ==
    [InitHandler EXCEPT !.pc = "done", !.user = h.user, !.chat = h.chat,
                        !.status = h.status, !.is_bot = h.is_bot,
                        !.raised = raised]

NoStats == [restricted_users |-> None, banned_users |-> None]

InitStats == [pc |-> "idle", restricted_count |-> 0, result |-> NoStats]

InitSweep ==
    [pc |-> "idle", cutoff |-> 0, expired_users |-> {}, todo |-> {},
     cur |-> NoUser, stamp |-> 0, ban |-> "none", unban |-> "none", ban_written |-> "none",
     notice |-> "none", raised |-> FALSE, sent |-> "none"]

\* What notify_admin did with the message: send_message returned, its
\* TelegramError was caught and logged, or nothing was sent.
NotifyOutcomes == {"sent", "failed", "skipped"}

\* The environment: NOTIFY_NO_USERS is '1' or not, ADMIN_USER_ID is set
\* or not.
Configs == [notify_no_users : BOOLEAN, admin_user_id : BOOLEAN]

\* notify_admin: without admin_user_id it returns at once; otherwise
\* send_message returns or raises TelegramError, which is logged.
notify_admin ==
    IF config.admin_user_id THEN {"sent", "failed"} ELSE {"skipped"}

Init ==
    /\ now = 0
    /\ restricted_users = {}
    /\ banned_users = {}
    /\ config \in Configs
    /\ handlers = [i \in Handlers |-> InitHandler]
    /\ sweep = InitSweep
    /\ last_check_time = None
    /\ next_check_time = None
    /\ stats = InitStats
    /\ abandoned = {}

Idle(i) == handlers[i].pc \in {"idle", "done"}

SweepIdle == sweep.pc \in {"idle", "done"}

\* ----------------------------------------------------- track_chat_member
\* The update handled just before this join was the same member leaving
\* the group (status left or kicked), which the handler ignored.
LeftBefore(prev, update) ==
    /\ prev.pc = "done"
    /\ prev.chat = GROUP_ID
    /\ prev.user = update.user
    /\ prev.status \in {"left", "kicked"}
    /\ update.chat = GROUP_ID
    /\ update.status \in JoinedStatuses
    /\ ~update.is_bot

\* track_chat_member without the is_bot filter.
track_chat_member_nobotfilter(i) ==
    /\ Idle(i)
    /\ \E update \in Updates :
         LET h == [InitHandler EXCEPT !.user = update.user,
                                      !.chat = update.chat,
                                      !.status = update.status,
                                      !.is_bot = update.is_bot,
                                      !.left_before =
                                          LeftBefore(handlers[i], update)]
         IN handlers' = [handlers EXCEPT ![i] =
              IF h.chat # GROUP_ID THEN [h EXCEPT !.pc = "done"]
              ELSE IF h.status \notin JoinedStatuses
                   THEN [h EXCEPT !.pc = "done"]
              ELSE [h EXCEPT !.pc = "is_user_banned"]]
    /\ UNCHANGED <<now, store, config, abandoned, stats, sweep,
                   last_check_time, next_check_time>>

\* track_chat_member without the status filter: every update of the
\* configured group is taken for a join.
track_chat_member_nostatusfilter(i) ==
    /\ Idle(i)
    /\ \E update \in Updates :
         LET h == [InitHandler EXCEPT !.user = update.user,
                                      !.chat = update.chat,
                                      !.status = update.status,
                                      !.is_bot = update.is_bot,
                                      !.left_before =
                                          LeftBefore(handlers[i], update)]
         IN handlers' = [handlers EXCEPT ![i] =
              IF h.chat # GROUP_ID THEN [h EXCEPT !.pc = "done"]
              ELSE IF h.is_bot THEN [h EXCEPT !.pc = "done"]
              ELSE [h EXCEPT !.pc = "is_user_banned"]]
    /\ UNCHANGED <<now, store, config, abandoned, stats, sweep,
                   last_check_time, next_check_time>>

\* A chat-member update is dispatched: the three filters, then the
\* coroutine suspends on is_user_banned.
track_chat_member(i) ==
    /\ Idle(i)
    /\ \E update \in Updates :
         LET h == [InitHandler EXCEPT !.user = update.user,
                                      !.chat = update.chat,
                                      !.status = update.status,
                                      !.is_bot = update.is_bot,
                                      !.left_before =
                                          LeftBefore(handlers[i], update)]
         IN handlers' = [handlers EXCEPT ![i] =
              IF h.chat # GROUP_ID THEN [h EXCEPT !.pc = "done"]
              ELSE IF h.status \notin JoinedStatuses
                   THEN [h EXCEPT !.pc = "done"]
              ELSE IF h.is_bot THEN [h EXCEPT !.pc = "done"]
              ELSE [h EXCEPT !.pc = "is_user_banned"]]
    /\ UNCHANGED <<now, store, config, abandoned, stats, sweep,
                   last_check_time, next_check_time>>

\* track_is_user_banned that also takes a restricted_users row for a ban.
track_is_user_banned_orrestricted(i) ==
    /\ handlers[i].pc = "is_user_banned"
    /\ \/ handlers' = [handlers EXCEPT ![i] =
            IF \/ is_user_banned(banned_users, handlers[i].user)
               \/ is_user_restricted(restricted_users, handlers[i].user)
            THEN [@ EXCEPT !.banned = "yes", !.pc = "ban_chat_member"]
            ELSE [@ EXCEPT !.banned = "no",
                           !.permissions = restricted_permissions,
                           !.pc = "restrict_chat_member"]]
       \/ handlers' = [handlers EXCEPT ![i] =
            Returned(@, TRUE)]
    /\ UNCHANGED <<now, store, config, abandoned, stats, sweep,
                   last_check_time, next_check_time>>

\* is_user_banned returns: True -> ban_chat_member is awaited, False ->
\* restrict_chat_member is awaited; a storage error leaves the handler.
track_is_user_banned(i) ==
    /\ handlers[i].pc = "is_user_banned"
    /\ \/ handlers' = [handlers EXCEPT ![i] =
            IF is_user_banned(banned_users, handlers[i].user)
            THEN [@ EXCEPT !.banned = "yes", !.pc = "ban_chat_member"]
            ELSE [@ EXCEPT !.banned = "no",
                           !.permissions = restricted_permissions,
                           !.pc = "restrict_chat_member"]]
       \/ handlers' = [handlers EXCEPT ![i] =
            Returned(@, TRUE)]
    /\ UNCHANGED <<now, store, config, abandoned, stats, sweep,
                   last_check_time, next_check_time>>

\* track_ban_chat_member whose except branch does not return: after the
\* TelegramError the handler goes on to restrict_chat_member.
track_ban_chat_member_fallthrough(i) ==
    /\ handlers[i].pc = "ban_chat_member"
    /\ \/ handlers' = [handlers EXCEPT ![i] =
            [@ EXCEPT !.ban = "ok", !.notice = "reban", !.pc = "notify_admin"]]
       \/ handlers' = [handlers EXCEPT ![i] =
            [@ EXCEPT !.ban = "failed", !.pc = "restrict_chat_member"]]
    /\ UNCHANGED <<now, store, config, abandoned, stats, sweep,
                   last_check_time, next_check_time>>

\* track_ban_chat_member that records the repeated ban: after a successful
\* ban_chat_member the handler writes the member's banned_users row anew.
track_ban_chat_member_recordsban(i) ==
    /\ handlers[i].pc = "ban_chat_member"
    /\ \/ /\ handlers' = [handlers EXCEPT ![i] =
               [@ EXCEPT !.ban = "ok", !.notice = "reban",
                         !.pc = "notify_admin"]]
          /\ banned_users' = add_banned_user(banned_users, handlers[i].user,
                                             now, "rejoined")
       \/ /\ handlers' = [handlers EXCEPT ![i] =
               [@ EXCEPT !.ban = "failed", !.notice = "ban_error",
                         !.pc = "notify_admin"]]
          /\ UNCHANGED banned_users
    /\ UNCHANGED <<now, restricted_users, config, abandoned, stats, sweep,
                   last_check_time, next_check_time>>

\* ban_chat_member returns or raises TelegramError; both branches call
\* notify_admin and return.
track_ban_chat_member(i) ==
    /\ handlers[i].pc = "ban_chat_member"
    /\ \/ handlers' = [handlers EXCEPT ![i] =
            [@ EXCEPT !.ban = "ok", !.notice = "reban", !.pc = "notify_admin"]]
       \/ handlers' = [handlers EXCEPT ![i] =
            [@ EXCEPT !.ban = "failed", !.notice = "ban_error",
                      !.pc = "notify_admin"]]
    /\ UNCHANGED <<now, store, config, abandoned, stats, sweep,
                   last_check_time, next_check_time>>

\* track_restrict_chat_member with the INSERT outside the try: the row is
\* written after a failed restrict_chat_member as well.
track_restrict_chat_member_writeanyway(i) ==
    /\ handlers[i].pc = "restrict_chat_member"
    /\ \/ handlers' = [handlers EXCEPT ![i] =
            [@ EXCEPT !.restrict = "ok", !.stamp = now,
                      !.pc = "add_restricted_user"]]
       \/ handlers' = [handlers EXCEPT ![i] =
            [@ EXCEPT !.restrict = "failed", !.stamp = now,
                      !.pc = "add_restricted_user"]]
    /\ UNCHANGED <<now, store, config, abandoned, stats, sweep,
                   last_check_time, next_check_time>>

\* restrict_chat_member returns (add_restricted_user takes its timestamp and
\* awaits the INSERT) or raises TelegramError (notify_admin).
track_restrict_chat_member(i) ==
    /\ handlers[i].pc = "restrict_chat_member"
    /\ \/ handlers' = [handlers EXCEPT ![i] =
            [@ EXCEPT !.restrict = "ok", !.stamp = now,
                      !.pc = "add_restricted_user"]]
       \/ handlers' = [handlers EXCEPT ![i] =
            [@ EXCEPT !.restrict = "failed", !.notice = "restrict_error",
                      !.pc = "notify_admin"]]
    /\ UNCHANGED <<now, store, config, abandoned, stats, sweep,
                   last_check_time, next_check_time>>

\* The INSERT of add_restricted_user runs; its result is not looked at and
\* notify_admin is called.  Any other storage error leaves the handler.
track_add_restricted_user(i) ==
    /\ handlers[i].pc = "add_restricted_user"
    /\ \/ LET res == add_restricted_user(restricted_users, handlers[i].user,
                                          handlers[i].stamp)
          IN /\ restricted_users' = res.table
             /\ handlers' = [handlers EXCEPT ![i] =
                  [@ EXCEPT !.inserted = IF res.ok THEN "inserted" ELSE "exists",
                            !.stamp = 0, !.notice = "restricted",
                            !.pc = "notify_admin"]]
       \/ /\ handlers' = [handlers EXCEPT ![i] =
                  Returned(@, TRUE)]
          /\ UNCHANGED restricted_users
    /\ UNCHANGED <<now, banned_users, config, abandoned, stats, sweep,
                   last_check_time, next_check_time>>

\* notify_admin returns (without admin_user_id at once, otherwise after
\* send_message returned or its TelegramError was logged) and the handler
\* returns; its locals are gone, the update it handled is kept.
track_notify_admin(i) ==
    /\ handlers[i].pc = "notify_admin"
    /\ \E outcome \in notify_admin :
          handlers' = [handlers EXCEPT ![i] =
                          [Returned(@, FALSE) EXCEPT !.sent = outcome]]
    /\ UNCHANGED <<now, store, config, abandoned, stats, sweep,
                   last_check_time, next_check_time>>

Tick ==
    /\ now < MaxTime
    /\ now' = now + 1
    /\ UNCHANGED <<store, config, abandoned, stats, handlers, sweep,
                   last_check_time, next_check_time>>

\* ------------------------------------------- check_expired_restrictions
EXPIRED_REASON == "restriction period expired"

\* check_expired_restrictions whose query forgets the grace period.
check_expired_restrictions_nograce ==
    /\ SweepIdle
    /\ last_check_time' = now
    /\ next_check_time' = now + CheckInterval
    /\ sweep' = [InitSweep EXCEPT !.pc = "get_expired_restrictions",
                                  !.cutoff = now]
    /\ UNCHANGED <<now, store, config, abandoned, stats, handlers>>

\* check_expired_restrictions that keeps the last_check_time of the first
\* run of the job.
check_expired_restrictions_firstonly ==
    /\ SweepIdle
    /\ last_check_time' = IF last_check_time = None THEN now
                          ELSE last_check_time
    /\ next_check_time' = now + CheckInterval
    /\ sweep' = [InitSweep EXCEPT !.pc = "get_expired_restrictions",
                                  !.cutoff = now - GracePeriod]
    /\ UNCHANGED <<now, store, config, abandoned, stats, handlers>>

\* The job starts: both timestamps are set, get_expired_restrictions
\* computes its cutoff and awaits the SELECT.  The job queue runs one
\* instance of the job at a time.
check_expired_restrictions ==
    /\ SweepIdle
    /\ last_check_time' = now
    /\ next_check_time' = now + CheckInterval
    /\ sweep' = [InitSweep EXCEPT !.pc = "get_expired_restrictions",
                                  !.cutoff = now - GracePeriod]
    /\ UNCHANGED <<now, store, config, abandoned, stats, handlers>>

\* SweepNextUser that puts a member whose command failed back among the
\* rows to do.
SweepNextUser_requeue(expired_users, ids, sent) ==
    \E u \in ids :
       sweep' = [sweep EXCEPT !.expired_users = expired_users,
                              !.sent = sent,
                              !.cur = u,
                              !.todo = IF sweep.notice = "remove_error"
                                       THEN (ids \ {u}) \cup {sweep.cur}
                                       ELSE ids \ {u},
                              !.stamp = 0,
                              !.cutoff = 0,
                              !.ban = "none", !.unban = "none",
                              !.ban_written = "none",
                              !.notice = "none", !.pc = "ban_chat_member"]

\* The loop takes the next row of the snapshot and awaits ban_chat_member;
\* the SELECT has no ORDER BY, the order of the rows is left open.  Of a
\* row the loop reads user_id (and the display attributes) only.
SweepNextUser(expired_users, ids, sent) ==
    \E u \in ids :
       sweep' = [sweep EXCEPT !.expired_users = expired_users,
                              !.sent = sent,
                              !.cur = u, !.todo = ids \ {u}, !.stamp = 0,
                              !.cutoff = 0,
                              !.ban = "none", !.unban = "none",
                              !.ban_written = "none",
                              !.notice = "none", !.pc = "ban_chat_member"]

\* sweep_get_expired_restrictions that does not look at notify_no_users:
\* the empty result is always notified.
sweep_get_expired_restrictions_alwaysnotify ==
    /\ sweep.pc = "get_expired_restrictions"
    /\ \/ LET expired_users ==
                get_expired_restrictions(restricted_users, sweep.cutoff)
          IN IF expired_users = {}
             THEN sweep' = [sweep EXCEPT !.cutoff = 0,
                                         !.notice = "no_users",
                                         !.pc = "notify_admin"]
             ELSE LET ids == {r.user_id : r \in expired_users}
                  IN SweepNextUser(ids, ids, "none")
       \/ sweep' = [InitSweep EXCEPT !.raised = TRUE, !.pc = "done"]
    /\ UNCHANGED <<now, store, config, abandoned, stats, handlers,
                   last_check_time, next_check_time>>

\* The SELECT returns the snapshot: empty -> optional notification and
\* return; otherwise the loop starts.  A storage error is caught by the
\* outer except and ends the job.
sweep_get_expired_restrictions ==
    /\ sweep.pc = "get_expired_restrictions"
    /\ \/ LET expired_users ==
                get_expired_restrictions(restricted_users, sweep.cutoff)
          IN IF expired_users = {}
             THEN sweep' = IF config.notify_no_users
                           THEN [sweep EXCEPT !.cutoff = 0,
                                              !.notice = "no_users",
                                              !.pc = "notify_admin"]
                           ELSE [InitSweep EXCEPT !.pc = "done"]
             ELSE LET ids == {r.user_id : r \in expired_users}
                  IN SweepNextUser(ids, ids, "none")
       \/ sweep' = [InitSweep EXCEPT !.raised = TRUE, !.pc = "done"]
    /\ UNCHANGED <<now, store, config, abandoned, stats, handlers,
                   last_check_time, next_check_time>>

\* ban_chat_member without the inner try: its TelegramError reaches the
\* outer except and ends the job.
sweep_ban_chat_member_abort ==
    /\ sweep.pc = "ban_chat_member"
    /\ \/ sweep' = [sweep EXCEPT !.ban = "ok", !.sent = "none",
                                 !.pc = "unban_chat_member"]
       \/ sweep' = [InitSweep EXCEPT !.raised = TRUE, !.pc = "done"]
    /\ UNCHANGED <<now, store, config, abandoned, stats, handlers,
                   last_check_time, next_check_time>>

\* ban_chat_member returns (unban_chat_member is awaited) or raises
\* TelegramError (notify_admin of the inner except).
sweep_ban_chat_member ==
    /\ sweep.pc = "ban_chat_member"
    /\ \/ sweep' = [sweep EXCEPT !.ban = "ok", !.sent = "none",
                                 !.pc = "unban_chat_member"]
       \/ sweep' = [sweep EXCEPT !.ban = "failed", !.sent = "none",
                                 !.notice = "remove_error",
                                 !.pc = "notify_admin"]
    /\ UNCHANGED <<now, store, config, abandoned, stats, handlers,
                   last_check_time, next_check_time>>

\* sweep_unban_chat_member that goes on to the writes after a TelegramError.
sweep_unban_chat_member_ignored ==
    /\ sweep.pc = "unban_chat_member"
    /\ \/ sweep' = [sweep EXCEPT !.unban = "ok", !.stamp = now,
                                 !.pc = "add_banned_user"]
       \/ sweep' = [sweep EXCEPT !.unban = "failed", !.stamp = now,
                                 !.pc = "add_banned_user"]
    /\ UNCHANGED <<now, store, config, abandoned, stats, handlers,
                   last_check_time, next_check_time>>

\* unban_chat_member returns (add_banned_user takes its timestamp and awaits
\* the INSERT OR REPLACE) or raises TelegramError.
sweep_unban_chat_member ==
    /\ sweep.pc = "unban_chat_member"
    /\ \/ sweep' = [sweep EXCEPT !.unban = "ok", !.stamp = now,
                                 !.pc = "add_banned_user"]
       \/ sweep' = [sweep EXCEPT !.unban = "failed", !.notice = "remove_error",
                                 !.pc = "notify_admin"]
    /\ UNCHANGED <<now, store, config, abandoned, stats, handlers,
                   last_check_time, next_check_time>>

\* add_banned_user writes the row and returns True, or catches the storage
\* error and returns False; the sweep does not look at the result and
\* awaits remove_restricted_user.
sweep_add_banned_user ==
    /\ sweep.pc = "add_banned_user"
    /\ \/ /\ banned_users' = add_banned_user(banned_users, sweep.cur,
                                             sweep.stamp, EXPIRED_REASON)
          /\ sweep' = [sweep EXCEPT !.ban_written = "yes", !.stamp = 0,
                                    !.pc = "remove_restricted_user"]
       \/ /\ UNCHANGED banned_users
          /\ sweep' = [sweep EXCEPT !.ban_written = "no", !.stamp = 0,
                                    !.pc = "remove_restricted_user"]
    /\ UNCHANGED <<now, restricted_users, config, abandoned, stats,
                   handlers, last_check_time, next_check_time>>

\* sweep_remove_restricted_user whose storage error is handled like a
\* TelegramError: the administrator is told and the loop goes on.
sweep_remove_restricted_user_notifies ==
    /\ sweep.pc = "remove_restricted_user"
    /\ \/ LET res == remove_restricted_user(restricted_users,
                                            sweep.cur)
          IN /\ restricted_users' = res.table
             /\ sweep' = [sweep EXCEPT !.notice = "removed",
                                       !.pc = "notify_admin"]
       \/ /\ UNCHANGED restricted_users
          /\ sweep' = [sweep EXCEPT !.raised = TRUE,
                                    !.notice = "remove_error",
                                    !.pc = "notify_admin"]
    /\ UNCHANGED <<now, banned_users, config, abandoned, stats,
                   handlers, last_check_time, next_check_time>>

\* remove_restricted_user deletes the row and returns (notify_admin), or
\* raises a storage error, which the outer except catches: the job ends.
sweep_remove_restricted_user ==
    /\ sweep.pc = "remove_restricted_user"
    /\ \/ LET res == remove_restricted_user(restricted_users,
                                            sweep.cur)
          IN /\ restricted_users' = res.table
             /\ sweep' = [sweep EXCEPT !.notice = "removed",
                                       !.pc = "notify_admin"]
       \/ /\ UNCHANGED restricted_users
          /\ sweep' = [InitSweep EXCEPT !.raised = TRUE, !.pc = "done"]
    /\ UNCHANGED <<now, banned_users, config, abandoned, stats,
                   handlers, last_check_time, next_check_time>>

\* sweep_notify_admin whose notify_admin does not catch the TelegramError
\* of send_message: the exception ends the job.
sweep_notify_admin_raises ==
    /\ sweep.pc = "notify_admin"
    /\ \/ IF sweep.notice = "no_users" \/ sweep.todo = {}
          THEN sweep' = [InitSweep EXCEPT !.pc = "done", !.sent = "sent"]
          ELSE SweepNextUser(sweep.expired_users, sweep.todo, "sent")
       \/ sweep' = [InitSweep EXCEPT !.raised = TRUE, !.pc = "done",
                                     !.sent = "failed"]
    /\ UNCHANGED <<now, store, config, abandoned, stats, handlers,
                   last_check_time, next_check_time>>

\* notify_admin returns, the message sent or the TelegramError logged: the
\* empty-sweep notification ends the job, the per-member ones go on with
\* the next row of the snapshot.
sweep_notify_admin ==
    /\ sweep.pc = "notify_admin"
    /\ \E outcome \in notify_admin :
          IF sweep.notice = "no_users" \/ sweep.todo = {}
          THEN sweep' = [InitSweep EXCEPT !.pc = "done", !.sent = outcome]
          ELSE SweepNextUser(sweep.expired_users, sweep.todo, outcome)
    /\ UNCHANGED <<now, store, config, abandoned, stats, handlers,
                   last_check_time, next_check_time>>

\* The process stops and is started again: the coroutines in flight are
\* gone, the bot object is built anew, the database file is kept.
Crash ==
    /\ handlers' = [i \in Handlers |-> InitHandler]
    /\ sweep' = InitSweep
    /\ last_check_time' = None
    /\ next_check_time' = None
    /\ UNCHANGED <<now, store, config, abandoned, stats>>

TrackStep(i) ==
    \/ track_chat_member(i)
    \/ track_is_user_banned(i)
    \/ track_ban_chat_member(i)
    \/ track_restrict_chat_member(i)
    \/ track_add_restricted_user(i)
    \/ track_notify_admin(i)

SweepStep ==
    \/ check_expired_restrictions
    \/ sweep_get_expired_restrictions
    \/ sweep_ban_chat_member
    \/ sweep_unban_chat_member
    \/ sweep_add_banned_user
    \/ sweep_remove_restricted_user
    \/ sweep_notify_admin

\* The program: one join handler at a time beside the sweep job.
Next ==
    \/ \E i \in Sequential : TrackStep(i)
    \/ SweepStep
    \/ Tick

Spec == Init /\ [][Next]_vars

\* The program with process restarts.
NextCrash ==
    \/ Next
    \/ Crash

SpecCrash == Init /\ [][NextCrash]_vars

\* Join handlers alone, dispatched concurrently (concurrent_updates on).
NextConcurrent ==
    \/ \E i \in Handlers : TrackStep(i)
    \/ Tick

\* The bot starts on the database file of an earlier run, which may hold
\* a ban.
InitConcurrent ==
    /\ now = 0
    /\ restricted_users = {}
    /\ banned_users \in {{}, {BannedRow("u2", 0, EXPIRED_REASON)}}
    /\ config \in Configs
    /\ handlers = [i \in Handlers |-> InitHandler]
    /\ sweep = InitSweep
    /\ last_check_time = None
    /\ next_check_time = None
    /\ stats = InitStats
    /\ abandoned = {}

SpecConcurrent == InitConcurrent /\ [][NextConcurrent]_vars

\* ------------------------------------------------------------ properties
Restricted(u) == is_user_restricted(restricted_users, u)

Banned(u) == is_user_banned(banned_users, u)

RowsOf(table, u) == {r \in table : r.user_id = u}

Quiescent == SweepIdle /\ \A i \in Handlers : Idle(i)

\* C1: whenever no join handling and no sweep is in progress, no member is
\* in restricted_users and in banned_users at the same time.
C1_MutualExclusion ==
    Quiescent => \A u \in Users : ~(Restricted(u) /\ Banned(u))

\* C2: while the sweep is between add_banned_user and
\* remove_restricted_user for a member, a join handler about to run its
\* lookup for that member finds it in exactly one of the two tables.
C2_AtomicPromotion ==
    \A i \in Handlers :
       (/\ sweep.pc = "remove_restricted_user"
        /\ handlers[i].pc = "is_user_banned"
        /\ handlers[i].user = sweep.cur)
       => (Restricted(sweep.cur) # Banned(sweep.cur))

\* C3: at the step in which remove_restricted_user of a promotion returns,
\* the member is not restricted and is banned.
C3_PromotionPostcondition ==
    [][(sweep.pc = "remove_restricted_user" /\ sweep'.pc = "notify_admin")
       => /\ ~is_user_restricted(restricted_users', sweep.cur)
          /\ is_user_banned(banned_users', sweep.cur)]_vars

\* C4: a member that is in restricted_users or banned_users is in one of
\* them after every step, process restarts included.
C4_NoLostMember ==
    [][\A u \in Users :
         (Restricted(u) \/ Banned(u))
         => (\/ is_user_restricted(restricted_users', u)
             \/ is_user_banned(banned_users', u))]_vars

\* C5: a member with a row in banned_users has exactly one row there after
\* every step of a join handling, of a sweep (a repeated add_banned_user
\* included) and of a process restart.
C5_BanPermanence ==
    [][\A u \in Users :
         Banned(u) => Cardinality(RowsOf(banned_users', u)) = 1]_vars

\* A join of a banned member was answered with ban_chat_member and the row
\* in banned_users is still there.
C5_Witness ==
    \E i \in Handlers :
       /\ handlers[i].pc = "notify_admin"
       /\ handlers[i].notice = "reban"
       /\ Cardinality(RowsOf(banned_users, handlers[i].user)) = 1

\* C6: a join handler whose is_user_banned lookup returned True awaits
\* ban_chat_member or has issued it, issues no restrict_chat_member, inserts
\* no row into restricted_users, and returns only after ban_chat_member was
\* issued.
C6_RebanOnRejoin ==
    /\ [](\A i \in Handlers :
            handlers[i].banned = "yes"
            => /\ handlers[i].pc \in {"ban_chat_member", "notify_admin"}
               /\ handlers[i].pc = "notify_admin" => handlers[i].ban # "none"
               /\ handlers[i].restrict = "none"
               /\ handlers[i].inserted = "none")
    /\ [][\A i \in Handlers :
            (handlers[i].banned = "yes" /\ handlers'[i] # handlers[i])
            => /\ restricted_users' = restricted_users
               /\ handlers'[i].pc = "done" => handlers[i].ban # "none"]_vars

\* A banned member joined and ban_chat_member was issued for it.
C6_Witness ==
    \E i \in Handlers :
       /\ handlers[i].banned = "yes"
       /\ handlers[i].ban = "ok"
       /\ Banned(handlers[i].user)

\* C7: restricted_users holds at most one row per id, and for an id without
\* a row two add_restricted_user calls in a row return True, then False,
\* and leave exactly one row for the id.
C7_IdempotentInsert ==
    \A u \in Users :
       /\ Cardinality(RowsOf(restricted_users, u)) <= 1
       /\ ~Restricted(u)
          => \A t1 \in now..MaxTime, t2 \in now..MaxTime :
                LET first == add_restricted_user(restricted_users, u, t1)
                    second == add_restricted_user(first.table, u, t2)
                IN /\ first.ok
                   /\ ~second.ok
                   /\ Cardinality(RowsOf(second.table, u)) = 1

\* A join handler called add_restricted_user for a member that had a row:
\* the call returned False and the member has one row.
C7_Witness ==
    \E i \in Handlers :
       /\ handlers[i].inserted = "exists"
       /\ Cardinality(RowsOf(restricted_users, handlers[i].user)) = 1

\* C8: with join handlers running concurrently, an add_restricted_user call
\* for an id without a row adds its row and returns True, a call for an id
\* with a row returns False and leaves the table as it is, rows of other ids
\* are not touched; of two handlers for one id at most one gets True and the
\* id has one row.
C8_RacingJoins ==
    /\ [](\A i, j \in Handlers :
            (/\ i # j
             /\ handlers[i].user = handlers[j].user
             /\ handlers[i].inserted # "none"
             /\ handlers[j].inserted # "none")
            => /\ ~(handlers[i].inserted = "inserted"
                    /\ handlers[j].inserted = "inserted")
               /\ Cardinality(RowsOf(restricted_users, handlers[i].user)) = 1)
    /\ [][\A i \in Handlers :
            (/\ handlers[i].pc = "add_restricted_user"
             /\ handlers'[i].pc = "notify_admin")
            => LET u == handlers[i].user
               IN /\ Restricted(u)
                     => /\ handlers'[i].inserted = "exists"
                        /\ restricted_users' = restricted_users
                  /\ ~Restricted(u)
                     => /\ handlers'[i].inserted = "inserted"
                        /\ restricted_users' = restricted_users
                             \cup {RestrictedRow(u, handlers[i].stamp)}
                  /\ \A v \in Users \ {u} :
                        RowsOf(restricted_users', v)
                          = RowsOf(restricted_users, v)]_vars

\* Two handlers raced on one member: one insert was accepted, the other
\* rejected.
C8_Witness ==
    \E i, j \in Handlers :
       /\ handlers[i].user = handlers[j].user
       /\ handlers[i].inserted = "inserted"
       /\ handlers[j].inserted = "exists"

\* C9: a join handler whose restrict_chat_member failed calls notify_admin
\* with the failure and changes neither table; every row added to
\* restricted_users is added by a handler for that member whose
\* restrict_chat_member succeeded.
C9_FailedRestrictWritesNothing ==
    /\ [](\A i \in Handlers :
            handlers[i].restrict = "failed"
            => /\ handlers[i].pc = "notify_admin"
               /\ handlers[i].notice = "restrict_error"
               /\ handlers[i].inserted = "none")
    /\ [][/\ \A i \in Handlers :
               (/\ handlers'[i] # handlers[i]
                /\ \/ handlers[i].restrict = "failed"
                   \/ handlers'[i].restrict = "failed")
               => UNCHANGED store
          /\ \A r \in restricted_users' \ restricted_users :
               \E i \in Handlers :
                  /\ handlers[i].pc = "add_restricted_user"
                  /\ handlers[i].restrict = "ok"
                  /\ handlers[i].user = r.user_id]_vars

\* restrict_chat_member failed for a member that is in neither table.
C9_Witness ==
    \E i \in Handlers :
       /\ handlers[i].restrict = "failed"
       /\ ~Restricted(handlers[i].user)
       /\ ~Banned(handlers[i].user)

\* C10: a join handler never goes past its filters with a bot account: it
\* has returned, with no lookup, no gateway call, no insert and no
\* notification, and the step that handles the update changes nothing else.
C10_BotsIgnored ==
    /\ [](\A i \in Handlers :
            handlers[i].is_bot
            => /\ handlers[i].pc = "done"
               /\ handlers[i].banned = "none"
               /\ handlers[i].ban = "none"
               /\ handlers[i].restrict = "none"
               /\ handlers[i].inserted = "none"
               /\ handlers[i].notice = "none")
    /\ [][\A i \in Handlers :
            (handlers'[i].is_bot /\ handlers'[i] # handlers[i])
            => UNCHANGED <<store, sweep, last_check_time,
                           next_check_time>>]_vars

\* The update of a bot account whose id is in banned_users was handled.
C10_Witness ==
    \E i \in Handlers :
       /\ handlers[i].is_bot
       /\ handlers[i].chat = GROUP_ID
       /\ handlers[i].status \in JoinedStatuses
       /\ Banned(handlers[i].user)

\* C11: a join handler calls notify_admin exactly in the branches that
\* changed something (a re-ban or its failure, an accepted insert, a failed
\* restriction); a handler whose add_restricted_user found the row already
\* present, and a handler of a bot account, call no notify_admin.
C11_ExactlyOneNotification ==
    \A i \in Handlers :
       /\ handlers[i].is_bot => handlers[i].notice = "none"
       /\ handlers[i].inserted = "exists" => handlers[i].notice = "none"
       /\ (\/ handlers[i].ban # "none"
           \/ handlers[i].restrict = "failed"
           \/ handlers[i].inserted = "inserted")
          => /\ handlers[i].pc = "notify_admin"
             /\ handlers[i].notice # "none"

\* C12: a TelegramError of ban_chat_member or unban_chat_member for one row
\* of the snapshot writes nothing for that member, leads to one notify_admin
\* for it, and the loop then goes on with all the rows still to do; a row
\* whose two commands succeed goes on to its promotion writes.
C12_SweepGatewayFailure ==
    /\ sweep.pc \in {"ban_chat_member", "unban_chat_member"}
    /\ sweep'.notice = "remove_error"

C12_BatchIsolation ==
    /\ [](/\ sweep.cur \notin sweep.todo
          /\ sweep.todo \subseteq sweep.expired_users
          /\ sweep.cur # NoUser => sweep.cur \in sweep.expired_users)
    /\ [][/\ C12_SweepGatewayFailure
             => /\ UNCHANGED store
                /\ sweep'.pc = "notify_admin"
                /\ sweep'.cur = sweep.cur
                /\ sweep'.todo = sweep.todo
                /\ sweep'.expired_users = sweep.expired_users
          /\ (sweep.pc = "notify_admin" /\ sweep.notice = "remove_error"
                /\ sweep' # sweep)
             => /\ UNCHANGED store
                /\ IF sweep.todo = {}
                   THEN sweep'.pc = "done" /\ ~sweep'.raised
                   ELSE /\ sweep'.pc = "ban_chat_member"
                        /\ sweep'.cur \in sweep.todo
                        /\ sweep'.todo = sweep.todo \ {sweep'.cur}
                        /\ sweep'.expired_users = sweep.expired_users
          /\ (sweep.pc = "ban_chat_member" /\ sweep' # sweep
                /\ ~C12_SweepGatewayFailure)
             => sweep'.pc = "unban_chat_member" /\ sweep'.cur = sweep.cur
          /\ (sweep.pc = "unban_chat_member" /\ sweep' # sweep
                /\ ~C12_SweepGatewayFailure)
             => sweep'.pc = "add_banned_user" /\ sweep'.cur = sweep.cur
         ]_vars

\* A snapshot of two rows: the first member's command failed (the member is
\* still restricted and not banned), the second member has been promoted.
C12_Witness ==
    /\ sweep.pc = "notify_admin"
    /\ sweep.notice = "removed"
    /\ sweep.ban_written = "yes"
    /\ sweep.expired_users = Users
    /\ sweep.todo = {}
    /\ Banned(sweep.cur) /\ ~Restricted(sweep.cur)
    /\ \E u \in Users \ {sweep.cur} : Restricted(u) /\ ~Banned(u)

\* C13: a storage error raised while one member is processed stays with
\* that member: the join handler awaiting is_user_banned or
\* add_restricted_user does not end with the exception but goes on (to a
\* notify_admin), and the sweep awaiting add_banned_user or
\* remove_restricted_user keeps its member and the rows still to do.
C13_StorageErrorsIsolated ==
    [][/\ \A i \in Handlers :
            (/\ handlers[i].pc \in {"is_user_banned", "add_restricted_user"}
             /\ handlers'[i] # handlers[i])
            => /\ ~handlers'[i].raised
               /\ handlers'[i].pc # "done"
       /\ (/\ sweep.pc \in {"add_banned_user", "remove_restricted_user"}
           /\ sweep' # sweep)
          => /\ ~sweep'.raised
             /\ sweep'.cur = sweep.cur
             /\ sweep'.todo = sweep.todo
      ]_vars

\* C14: when ban_chat_member or unban_chat_member fails for a member of the
\* snapshot, neither table changes, and while that failure is reported the
\* member's row is still one that get_expired_restrictions returns; a row
\* leaves restricted_users only in a promotion whose add_banned_user wrote
\* the banned_users row.
C14_RetryViaNextCycle ==
    /\ [](sweep.notice = "remove_error"
          => /\ ~Banned(sweep.cur) \/ sweep.ban_written = "none"
             /\ sweep.cur \in
                  {r.user_id : r \in get_expired_restrictions(
                                        restricted_users, now - GracePeriod)})
    /\ [][/\ C12_SweepGatewayFailure => UNCHANGED store
          /\ (\E r \in restricted_users : r \notin restricted_users')
             => /\ sweep.pc = "remove_restricted_user"
                /\ sweep.ban_written = "yes"
                /\ Banned(sweep.cur)
                /\ restricted_users \ restricted_users'
                     \subseteq RowsOf(restricted_users, sweep.cur)
         ]_vars

\* ------------------------------------------------------------- fairness
\* The outcomes that the fairness conditions name.
SweepBanOk == sweep_ban_chat_member /\ sweep'.ban = "ok"

SweepUnbanOk == sweep_unban_chat_member /\ sweep'.unban = "ok"

SweepQueryOk == sweep_get_expired_restrictions /\ ~sweep'.raised

SweepBanWritten == sweep_add_banned_user /\ sweep'.ban_written = "yes"

SweepRowRemoved == sweep_remove_restricted_user /\ ~sweep'.raised

\* run_repeating starts the job again and again, every awaited call
\* returns, and a call that is made again and again succeeds again and
\* again; a join handler that has started runs to its end.
Fairness ==
    /\ WF_vars(check_expired_restrictions)
    /\ WF_vars(sweep_get_expired_restrictions)
    /\ WF_vars(sweep_ban_chat_member)
    /\ WF_vars(sweep_unban_chat_member)
    /\ WF_vars(sweep_add_banned_user)
    /\ WF_vars(sweep_remove_restricted_user)
    /\ WF_vars(sweep_notify_admin)
    /\ SF_vars(SweepQueryOk)
    /\ SF_vars(SweepBanOk)
    /\ SF_vars(SweepUnbanOk)
    /\ SF_vars(SweepBanWritten)
    /\ SF_vars(SweepRowRemoved)
    /\ \A i \in Sequential :
          WF_vars(\/ track_is_user_banned(i)
                  \/ track_ban_chat_member(i)
                  \/ track_restrict_chat_member(i)
                  \/ track_add_restricted_user(i)
                  \/ track_notify_admin(i))

SpecFair == Init /\ [][Next]_vars /\ Fairness

\* The member has a restricted_users row whose grace period has elapsed.
Expired(u) ==
    \E r \in restricted_users :
       r.user_id = u /\ r.restricted_at <= now - GracePeriod

\* C15: under the fairness above, a member with a restricted_users row
\* whose grace period has elapsed is eventually in banned_users and not in
\* restricted_users, and a member in banned_users stays there.
C15_EventualBan ==
    /\ \A u \in Users : Expired(u) ~> (Banned(u) /\ ~Restricted(u))
    /\ [][\A u \in Users : Banned(u) => Banned(u)']_vars

\* ------------------------------------------------- a stored database
\* The bot starts on the database file of an earlier run: a member has no
\* row or one row, restricted up to GracePeriod + 1 before the start.
StoredStamps == (0 - GracePeriod - 1) .. 0

StoredTables ==
    {table \in SUBSET {RestrictedRow(u, ts) : u \in Users, ts \in StoredStamps} :
        \A u \in Users : Cardinality(RowsOf(table, u)) <= 1}

InitStored ==
    /\ now = 0
    /\ restricted_users \in StoredTables
    /\ banned_users = {}
    /\ config \in Configs
    /\ handlers = [i \in Handlers |-> InitHandler]
    /\ sweep = InitSweep
    /\ last_check_time = None
    /\ next_check_time = None
    /\ stats = InitStats
    /\ abandoned = {}

\* The sweep job alone.
NextStored ==
    \/ SweepStep
    \/ Tick

SpecStored == InitStored /\ [][NextStored]_vars

C17_NoPrematureBan ==
    /\ [](sweep.pc \in {"ban_chat_member", "unban_chat_member",
                        "add_banned_user", "remove_restricted_user"}
          => sweep.cur \in sweep.expired_users)
    /\ [][/\ (sweep.pc = "get_expired_restrictions" /\ sweep' # sweep)
             => \A u \in sweep'.expired_users :
                   \E r \in restricted_users :
                      /\ r.user_id = u
                      /\ r.restricted_at <= last_check_time - GracePeriod
                      /\ r.restricted_at <= now - GracePeriod
          /\ (sweep.pc # "get_expired_restrictions"
                /\ sweep'.expired_users # {})
             => sweep'.expired_users = sweep.expired_users
          /\ banned_users' # banned_users
             => /\ sweep.pc = "add_banned_user"
                /\ \A r \in banned_users' \ banned_users :
                      r.user_id = sweep.cur
         ]_vars

\* The sweep has banned the expired member of its snapshot while another
\* member, restricted less than GracePeriod ago, is left alone.
C17_Witness ==
    /\ sweep.pc = "remove_restricted_user"
    /\ sweep.ban_written = "yes"
    /\ Banned(sweep.cur)
    /\ \E r \in restricted_users :
          /\ r.user_id # sweep.cur
          /\ r.restricted_at > last_check_time - GracePeriod
          /\ r.user_id \notin sweep.expired_users
          /\ ~Banned(r.user_id)

\* C18: a join of a member whose leaving the group was the update handled
\* just before is answered with ban_chat_member and not with a new
\* restriction.
C18_RebanAfterLeaving ==
    \A i \in Handlers :
       (handlers[i].left_before /\ handlers[i].banned # "none")
       => /\ handlers[i].banned = "yes"
          /\ handlers[i].restrict = "none"

\* C18 as amended: the join handler answers with ban_chat_member exactly
\* when banned_users holds a row of the member, whether or not the member
\* left before; a member who only left has no such row and is restricted
\* again, no ban_chat_member is sent.
C18_RebanOnlyAfterRemoval ==
    /\ [](\A i \in Handlers :
             /\ handlers[i].banned = "no" => handlers[i].ban = "none"
             /\ handlers[i].banned = "yes"
                => Banned(handlers[i].user) /\ handlers[i].restrict = "none")
    /\ [][\A i \in Handlers :
             (/\ handlers[i].pc = "is_user_banned"
              /\ handlers'[i] # handlers[i]
              /\ ~handlers'[i].raised)
             => /\ Banned(handlers[i].user)
                   => handlers'[i].pc = "ban_chat_member"
                /\ ~Banned(handlers[i].user)
                   => handlers'[i].pc = "restrict_chat_member"
         ]_vars

\* A restricted member left and joined again: the handler restricted the
\* member again, the row of the first join is still the only one.
C18_Witness ==
    \E i \in Handlers :
       /\ handlers[i].left_before
       /\ handlers[i].banned = "no"
       /\ handlers[i].restrict = "ok"
       /\ handlers[i].inserted = "exists"
       /\ Restricted(handlers[i].user)
       /\ ~Banned(handlers[i].user)

\* ------------------------------------------- the Database called directly
\* get_stats with the two counts in each other's place.
get_stats_swapped(restricted_count, banned_count) ==
    [restricted_users |-> banned_count, banned_users |-> restricted_count]

\* The dictionary get_stats returns.
get_stats(restricted_count, banned_count) ==
    [restricted_users |-> restricted_count, banned_users |-> banned_count]

DEFAULT_REASON == "Expired restriction period"

\* The user ids the caller passes.
DbUsers == Users \cup {"u3"}

\* The caller awaits each call before the next one.
StatsIdle == stats.pc \in {"idle", "done"}

db_add_restricted_user(u) ==
    /\ StatsIdle
    /\ restricted_users' = add_restricted_user(restricted_users, u, now).table
    /\ UNCHANGED <<now, banned_users, config, abandoned, stats,
                   handlers, sweep, last_check_time, next_check_time>>

db_add_banned_user(u) ==
    /\ StatsIdle
    /\ banned_users' = add_banned_user(banned_users, u, now, DEFAULT_REASON)
    /\ UNCHANGED <<now, restricted_users, config, abandoned, stats,
                   handlers, sweep, last_check_time, next_check_time>>

db_remove_restricted_user(u) ==
    /\ StatsIdle
    /\ restricted_users' = remove_restricted_user(restricted_users, u).table
    /\ UNCHANGED <<now, banned_users, config, abandoned, stats,
                   handlers, sweep, last_check_time, next_check_time>>

\* get_stats is called: the first SELECT COUNT(*) is awaited.
stats_get_stats ==
    /\ StatsIdle
    /\ stats' = [InitStats EXCEPT !.pc = "count_restricted"]
    /\ UNCHANGED <<now, store, config, abandoned, handlers, sweep,
                   last_check_time, next_check_time>>

\* COUNT(*) of restricted_users is fetched, the second SELECT is awaited;
\* a storage error leaves get_stats without a result.
stats_count_restricted ==
    /\ stats.pc = "count_restricted"
    /\ \/ stats' = [stats EXCEPT
                       !.restricted_count = Cardinality(restricted_users),
                       !.pc = "count_banned"]
       \/ stats' = [InitStats EXCEPT !.pc = "done"]
    /\ UNCHANGED <<now, store, config, abandoned, handlers, sweep,
                   last_check_time, next_check_time>>

\* COUNT(*) of banned_users is fetched and the dictionary is returned.
stats_count_banned ==
    /\ stats.pc = "count_banned"
    /\ \/ stats' = [InitStats EXCEPT
                       !.result = get_stats(stats.restricted_count,
                                            Cardinality(banned_users)),
                       !.pc = "done"]
       \/ stats' = [InitStats EXCEPT !.pc = "done"]
    /\ UNCHANGED <<now, store, config, abandoned, handlers, sweep,
                   last_check_time, next_check_time>>

NextDatabase ==
    \/ \E u \in DbUsers : db_add_restricted_user(u)
    \/ \E u \in DbUsers : db_add_banned_user(u)
    \/ \E u \in DbUsers : db_remove_restricted_user(u)
    \/ stats_get_stats
    \/ stats_count_restricted
    \/ stats_count_banned
    \/ Tick

SpecDatabase == Init /\ [][NextDatabase]_vars

\* C19: after any sequence of add_restricted_user, add_banned_user and
\* remove_restricted_user calls, the dictionary get_stats returns holds the
\* number of distinct user ids of restricted_users and of banned_users, and
\* no step of get_stats changes a table.
C19_StatsAgreeWithStore ==
    [][/\ (stats.pc = "count_banned" /\ stats'.result # NoStats)
          => /\ stats'.result.restricted_users
                  = Cardinality({r.user_id : r \in restricted_users})
             /\ stats'.result.banned_users
                  = Cardinality({r.user_id : r \in banned_users})
       /\ stats' # stats => UNCHANGED store
      ]_vars

\* get_stats has returned 2 and 3 for two restricted and three banned
\* members.
C19_Witness ==
    /\ stats.pc = "done"
    /\ stats.result = [restricted_users |-> 2, banned_users |-> 3]
    /\ Cardinality({r.user_id : r \in restricted_users}) = 2
    /\ {r.user_id : r \in banned_users} = DbUsers

\* C20: whether send_message succeeds or raises, the step in which
\* notify_admin returns changes neither table and leaves the caller where
\* the other outcome leaves it: the join handler returns without an
\* exception, and the sweep goes on with the rows still to do or ends
\* normally.
C20_NotificationFailuresIgnored ==
    [][/\ \A i \in Handlers :
            (handlers[i].pc = "notify_admin" /\ handlers'[i] # handlers[i])
            => /\ UNCHANGED store
               /\ handlers'[i].sent \in NotifyOutcomes
               /\ handlers'[i]
                    = [Returned(handlers[i], FALSE)
                          EXCEPT !.sent = handlers'[i].sent]
       /\ (sweep.pc = "notify_admin" /\ sweep' # sweep)
          => /\ UNCHANGED store
             /\ ~sweep'.raised
             /\ sweep'.sent \in NotifyOutcomes
             /\ IF sweep.notice = "no_users" \/ sweep.todo = {}
                THEN sweep' = [InitSweep EXCEPT !.pc = "done",
                                                !.sent = sweep'.sent]
                ELSE /\ sweep'.pc = "ban_chat_member"
                     /\ sweep'.cur \in sweep.todo
                     /\ sweep'.todo = sweep.todo \ {sweep'.cur}
                     /\ sweep'.expired_users = sweep.expired_users
      ]_vars

\* The notification about the first promoted member could not be sent; the
\* member is banned and the sweep is at the second row of its snapshot.
C20_Witness ==
    /\ sweep.pc = "ban_chat_member"
    /\ sweep.sent = "failed"
    /\ sweep.expired_users = Users
    /\ \E u \in Users \ {sweep.cur} : Banned(u) /\ ~Restricted(u)

\* The capabilities of posting content.
PostingCapabilities ==
    {"can_send_messages", "can_send_audios", "can_send_documents",
     "can_send_photos", "can_send_videos", "can_send_video_notes",
     "can_send_voice_notes", "can_send_polls", "can_send_other_messages",
     "can_add_web_page_previews"}

\* C21: every restrict_chat_member the join handler sends carries one and
\* the same mask, and in it each of the ten capabilities of posting content
\* is denied, none unset or granted.
C21_FullCapabilityDenial ==
    \A i \in Handlers :
       handlers[i].restrict # "none" \/ handlers[i].pc = "restrict_chat_member"
       => /\ \A f \in PostingCapabilities :
                handlers[i].permissions[f] = "denied"
          /\ \A j \in Handlers :
                handlers[j].pc = "restrict_chat_member"
                => handlers[j].permissions = handlers[i].permissions

\* A restrict_chat_member with the mask has succeeded for a member who
\* is restricted already: the mask of the second command is the same.
C21_Witness ==
    \E i \in Handlers :
       /\ handlers[i].restrict = "ok"
       /\ handlers[i].permissions # NoPermissions
       /\ Restricted(handlers[i].user)
       /\ handlers[i].inserted = "none"

\* The order of the awaited calls for one row of the snapshot.
SweepOrder ==
    {<<"ban_chat_member", "unban_chat_member">>,
     <<"unban_chat_member", "add_banned_user">>,
     <<"add_banned_user", "remove_restricted_user">>,
     <<"remove_restricted_user", "notify_admin">>}

\* C22: for one member the sweep awaits ban_chat_member, unban_chat_member,
\* add_banned_user, remove_restricted_user and notify_admin in this order,
\* and banned_users is written by the sweep only, for its current member,
\* after ban_chat_member and unban_chat_member both succeeded for that
\* member in this sweep.
C22_SweepStepOrdering ==
    /\ [](/\ sweep.pc = "unban_chat_member" => sweep.ban = "ok"
          /\ sweep.pc \in {"add_banned_user", "remove_restricted_user"}
             => sweep.ban = "ok" /\ sweep.unban = "ok"
          /\ sweep.pc = "remove_restricted_user" => sweep.ban_written # "none"
          /\ sweep.notice = "removed"
             => /\ sweep.pc = "notify_admin"
                /\ sweep.ban = "ok" /\ sweep.unban = "ok"
                /\ sweep.ban_written # "none")
    /\ [][/\ (/\ sweep'.pc # sweep.pc
              /\ sweep.pc \in {"ban_chat_member", "unban_chat_member",
                               "add_banned_user", "remove_restricted_user"}
              /\ ~sweep'.raised
              /\ sweep'.notice # "remove_error")
             => /\ <<sweep.pc, sweep'.pc>> \in SweepOrder
                /\ sweep'.cur = sweep.cur
          /\ banned_users' # banned_users
             => /\ sweep.pc = "add_banned_user"
                /\ sweep.ban = "ok" /\ sweep.unban = "ok"
                /\ \A r \in banned_users' \ banned_users :
                      r.user_id = sweep.cur
         ]_vars

\* The sweep has gone through the four calls for a member and awaits the
\* notification: the member is banned and no longer restricted.
C22_Witness ==
    /\ sweep.pc = "notify_admin"
    /\ sweep.notice = "removed"
    /\ sweep.ban = "ok" /\ sweep.unban = "ok"
    /\ sweep.ban_written = "yes"
    /\ Banned(sweep.cur) /\ ~Restricted(sweep.cur)

\* ------------------------------------------------ a stop with calls in flight
\* The gateway commands that have succeeded while the store write that
\* follows them has not been made: a restrict_chat_member of a member
\* without a row, a ban_chat_member of the sweep's current member.
AbandonedCalls ==
    {[kind |-> "restrict", user |-> handlers[i].user] :
        i \in {j \in Handlers : /\ handlers[j].pc = "add_restricted_user"
                                /\ ~is_user_restricted(restricted_users,
                                                       handlers[j].user)}}
    \cup
    IF sweep.pc \in {"unban_chat_member", "add_banned_user"}
    THEN {[kind |-> "remove", user |-> sweep.cur]}
    ELSE {}

\* The process stops once while such calls are in flight and is started
\* again: the coroutines are gone and their store writes are skipped.
Stop ==
    /\ abandoned = {}
    /\ AbandonedCalls # {}
    /\ abandoned' = AbandonedCalls
    /\ handlers' = [i \in Handlers |-> InitHandler]
    /\ sweep' = InitSweep
    /\ last_check_time' = None
    /\ next_check_time' = None
    /\ UNCHANGED <<now, store, config, stats>>

NextStop ==
    \/ Next
    \/ Stop

SpecStop == Init /\ [][NextStop]_vars /\ Fairness

\* C23: under the fairness of the sweep, a member whose restriction was
\* abandoned by a stop of the process (restricted on the platform, no row
\* written) eventually has a row in restricted_users or in banned_users,
\* and a member whose removal was abandoned is eventually banned and no
\* longer restricted.
C23_AbandonedCallsResolved ==
    \A u \in Users :
       /\ ([kind |-> "restrict", user |-> u] \in abandoned)
            ~> (Restricted(u) \/ Banned(u))
       /\ ([kind |-> "remove", user |-> u] \in abandoned)
            ~> (Banned(u) /\ ~Restricted(u))

\* The sweep is inside its loop over the snapshot.
SweepInLoop ==
    sweep.pc \in {"ban_chat_member", "unban_chat_member", "add_banned_user",
                  "remove_restricted_user"}
    \/ (sweep.pc = "notify_admin" /\ sweep.notice # "no_users")

\* C24: a sweep reads restricted_users once, when it starts; it sends
\* ban_chat_member to members of that snapshot only, to each at most once
\* (the rows still to do only shrink, and the next member is one of them),
\* also after a failed command; a row that is inserted or becomes expired
\* while the sweep runs does not enter the snapshot.
C24_OnePassPerSweep ==
    /\ [](SweepInLoop
          => /\ sweep.cur \in sweep.expired_users
             /\ sweep.cur \notin sweep.todo
             /\ sweep.todo \subseteq sweep.expired_users)
    /\ [][/\ (sweep'.pc = "get_expired_restrictions" /\ sweep' # sweep)
             => SweepIdle
          /\ (SweepInLoop /\ SweepInLoop')
             => /\ sweep'.expired_users = sweep.expired_users
                /\ sweep'.todo \subseteq sweep.todo
          /\ (sweep'.pc = "ban_chat_member" /\ sweep' # sweep)
             => IF sweep.pc = "get_expired_restrictions"
                THEN /\ sweep'.expired_users
                          = {r.user_id : r \in get_expired_restrictions(
                                restricted_users,
                                last_check_time - GracePeriod)}
                     /\ sweep'.todo = sweep'.expired_users \ {sweep'.cur}
                ELSE /\ sweep.pc = "notify_admin"
                     /\ sweep'.cur \in sweep.todo
                     /\ sweep'.cur # sweep.cur
                     /\ sweep'.todo = sweep.todo \ {sweep'.cur}
         ]_vars

\* While the sweep works on its snapshot a member has joined and has been
\* restricted: the member is not in the snapshot.
C24_Witness ==
    /\ SweepInLoop
    /\ \E i \in Handlers, r \in restricted_users :
          /\ handlers[i].pc = "notify_admin"
          /\ handlers[i].inserted = "inserted"
          /\ r.user_id = handlers[i].user
          /\ r.restricted_at >= last_check_time
          /\ r.user_id \notin sweep.expired_users

\* C25: in every step a row of restricted_users either stays as it is,
\* joined_at and restricted_at included, or the member has no row
\* afterwards; a second add_restricted_user for a restricted member leaves
\* the table as it is.
C25_RestrictionRecordsImmutable ==
    [][/\ \A r \in restricted_users :
             \/ r \in restricted_users'
             \/ ~is_user_restricted(restricted_users', r.user_id)
       /\ \A i \in Handlers :
             (/\ handlers[i].pc = "add_restricted_user"
              /\ handlers'[i] # handlers[i]
              /\ Restricted(handlers[i].user))
             => UNCHANGED restricted_users
      ]_vars

\* A member restricted earlier has joined again at a later time: the
\* insert found the row, which still carries the time of the first join.
C25_Witness ==
    \E i \in Handlers, r \in restricted_users :
       /\ handlers[i].inserted = "exists"
       /\ r.user_id = handlers[i].user
       /\ r.restricted_at < now
       /\ r.joined_at = r.restricted_at

\* C26: when the SELECT of the sweep returns no row, the sweep awaits no
\* gateway command and leaves both tables as they are; it calls
\* notify_admin with the "no users" text exactly when notify_no_users is
\* set, send_message is called exactly when admin_user_id is set as well,
\* and after that one call the sweep has returned without an exception.
C26_EmptySweepInert ==
    [][/\ (/\ sweep.pc = "get_expired_restrictions"
           /\ sweep' # sweep
           /\ ~sweep'.raised
           /\ get_expired_restrictions(restricted_users, sweep.cutoff) = {})
          => /\ UNCHANGED store
             /\ sweep'.ban = "none" /\ sweep'.unban = "none"
             /\ IF config.notify_no_users
                THEN /\ sweep'.pc = "notify_admin"
                     /\ sweep'.notice = "no_users"
                     /\ sweep'.sent = "none"
                ELSE /\ sweep'.pc = "done"
                     /\ sweep'.sent = "none"
       /\ (/\ sweep.pc = "notify_admin"
           /\ sweep.notice = "no_users"
           /\ sweep' # sweep)
          => /\ UNCHANGED store
             /\ sweep'.pc = "done"
             /\ ~sweep'.raised
             /\ sweep'.ban = "none" /\ sweep'.unban = "none"
             /\ sweep'.sent \in {"sent", "failed"} <=> config.admin_user_id
             /\ sweep'.sent = "skipped" <=> ~config.admin_user_id
      ]_vars

\* A restricted member's grace period has not run out, the SELECT came
\* back empty, and the sweep is about to tell the administrator so.
C26_Witness ==
    /\ sweep.pc = "notify_admin"
    /\ sweep.notice = "no_users"
    /\ config.notify_no_users
    /\ config.admin_user_id
    /\ restricted_users # {}
    /\ sweep.ban = "none"

\* C27: last_check_time and next_check_time are None until the job has
\* run for the first time; the step that starts a run of the job sets
\* last_check_time to the clock and next_check_time to that plus
\* check_interval_seconds, no other step of the job or of a handler touches
\* them, whatever the run finds and however it ends; so, once set, the two
\* differ by the interval and last_check_time does not go back.
C27_SweepTimestamps ==
    /\ [](/\ sweep.pc = "idle"
             => last_check_time = None /\ next_check_time = None
          /\ last_check_time = None <=> next_check_time = None
          /\ last_check_time # None
             => next_check_time - last_check_time = CheckInterval)
    /\ [][/\ (sweep'.pc = "get_expired_restrictions" /\ sweep' # sweep)
             => /\ last_check_time' = now
                /\ next_check_time' = now + CheckInterval
          /\ ~(sweep'.pc = "get_expired_restrictions" /\ sweep' # sweep)
             => UNCHANGED <<last_check_time, next_check_time>>
          /\ last_check_time # None
             => /\ last_check_time' # None
                /\ last_check_time' >= last_check_time
         ]_vars

\* A run of the job has removed a member and a later run has failed: the
\* timestamps are those of the start of the failed run.
C27_Witness ==
    /\ sweep.pc = "done"
    /\ sweep.raised
    /\ banned_users # {}
    /\ restricted_users = {}
    /\ last_check_time = now
    /\ now > 0
    /\ next_check_time = now + CheckInterval

\* An update the filters of track_chat_member drop: another chat, or a new
\* status that is none of member, administrator, owner.
Irrelevant(h) ==
    \/ h.chat # GROUP_ID
    \/ h.status \notin JoinedStatuses

\* C28: the handler of an update from another chat, or of one whose new
\* status is not member, administrator or owner, returns in the step that
\* dispatched it: both tables stay as they are, no lookup, gateway command
\* or notification is awaited, nothing is raised; a handler that is past
\* the filters works on a join in the configured group.
C28_IrrelevantUpdatesIgnored ==
    /\ [](\A i \in Handlers :
             /\ ~Idle(i) => ~Irrelevant(handlers[i])
             /\ Irrelevant(handlers[i])
                => /\ handlers[i].pc = "done"
                   /\ handlers[i].banned = "none"
                   /\ handlers[i].ban = "none"
                   /\ handlers[i].restrict = "none"
                   /\ handlers[i].inserted = "none"
                   /\ handlers[i].notice = "none"
                   /\ handlers[i].sent = "none"
                   /\ handlers[i].permissions = NoPermissions
                   /\ ~handlers[i].raised)
    /\ [][\A i \in Handlers :
             (handlers'[i] # handlers[i] /\ Irrelevant(handlers'[i]))
             => /\ Idle(i)
                /\ UNCHANGED <<store, sweep>>
         ]_vars

\* A restricted member has left the group: the update was dropped and the
\* member's row is still there.
C28_Witness ==
    \E i \in Handlers :
       /\ handlers[i].pc = "done"
       /\ handlers[i].status \in {"left", "kicked"}
       /\ handlers[i].chat = GROUP_ID
       /\ Restricted(handlers[i].user)

\* C29: a step of a join handler leaves banned_users as it is and takes no
\* row out of restricted_users; a step of the sweep puts no row into
\* restricted_users; the is_user_banned lookup of the handler changes
\* neither table.  banned_users changes only in the add_banned_user step
\* of the sweep, and the rows that step writes are rows of the member it
\* is working on, who has a restricted_users row at that moment.
C29_SeparationOfWriters ==
    [][/\ (handlers' # handlers)
          => /\ banned_users' = banned_users
             /\ restricted_users \subseteq restricted_users'
       /\ (sweep' # sweep)
          => restricted_users' \subseteq restricted_users
       /\ \A i \in Handlers :
             (handlers[i].pc = "is_user_banned" /\ handlers'[i] # handlers[i])
             => UNCHANGED store
       /\ (banned_users' # banned_users)
          => /\ sweep.pc = "add_banned_user"
             /\ sweep'.pc = "remove_restricted_user"
             /\ Restricted(sweep.cur)
             /\ \A b \in banned_users' \ banned_users :
                   b.user_id = sweep.cur
             /\ \A b \in banned_users \ banned_users' :
                   b.user_id = sweep.cur
      ]_vars

\* A banned member has joined again and the handler has banned the member
\* on the platform: the row in banned_users is the one the sweep wrote.
C29_Witness ==
    \E i \in Handlers, b \in banned_users :
       /\ handlers[i].pc = "notify_admin"
       /\ handlers[i].ban = "ok"
       /\ b.user_id = handlers[i].user
       /\ b.reason = EXPIRED_REASON
       /\ b.banned_at <= now

\* C30: when the SELECT of the sweep fails, or a storage error leaves the
\* processing of a member, the outer except ends the job in that step:
\* the job has returned, no notification is pending or sent, both tables
\* are as the failing call left them (the rows of the members still to do
\* among them), the timestamps are those the job set when it started, and
\* the job can be started again.
C30_SweepFailureSwallowed ==
    /\ [](sweep.raised
          => /\ sweep.pc = "done"
             /\ sweep.notice = "none"
             /\ sweep.sent = "none"
             /\ last_check_time # None
             /\ next_check_time = last_check_time + CheckInterval
             /\ ENABLED check_expired_restrictions)
    /\ [][(sweep'.raised /\ sweep' # sweep)
          => /\ sweep.pc \in {"get_expired_restrictions",
                              "remove_restricted_user"}
             /\ UNCHANGED <<store, last_check_time, next_check_time>>
             /\ \A u \in sweep.todo :
                   /\ Restricted(u)'
                   /\ Banned(u)' <=> Banned(u)
         ]_vars

\* Two members were due; the job wrote the ban of the first, failed on
\* deleting the first one's row and ended: the second member's row is as
\* it was and the second member is not banned.
C30_Witness ==
    /\ sweep.raised
    /\ sweep.pc = "done"
    /\ \E u, v \in Users :
          /\ u # v
          /\ Banned(u) /\ Restricted(u)
          /\ Restricted(v) /\ ~Banned(v)
          /\ Expired(v)
====
